---- MODULE Spec2Model ----
(***************************************************************************)
(* Location resolution of crisis_intel: the Gazetteer (src/geo/gazetteer.py) *)
(* and the tiered resolver (src/geo/resolve.py).                            *)
(*                                                                         *)
(* Text is a sequence of one-character tokens.  A precomposed accented     *)
(* letter is written with a trailing quote ("e'" is U+00E9, "E'" is        *)
(* U+00C9); "^" is the combining acute accent U+0301 on its own.            *)
(* Coordinates are whole degrees.  Confidences are hundredths, added as     *)
(* exact decimals: the rounding of the binary doubles is not represented.  *)
(***************************************************************************)
EXTENDS Integers, Sequences, FiniteSets, TLC

VARIABLES pc, tables, gaz, call

vars == <<pc, tables, gaz, call>>

----------------------------------------------------------------------------
(* Characters                                                              *)

LowerLetters ==
    <<"a","b","c","d","e","f","g","h","i","j","k","l","m",
      "n","o","p","q","r","s","t","u","v","w","x","y","z">>

UpperLetters ==
    <<"A","B","C","D","E","F","G","H","I","J","K","L","M",
      "N","O","P","Q","R","S","T","U","V","W","X","Y","Z">>

Digits == <<"0","1","2","3","4","5","6","7","8","9">>

Range(f) == {f[i] : i \in DOMAIN f}

LowerSet == Range(LowerLetters)
UpperSet == Range(UpperLetters)
DigitSet == Range(Digits)

\* precomposed accented letters: token -> <<base letter, combining mark>>
Decomposition ==
    ("e'" :> <<"e", "^">>) @@ ("E'" :> <<"E", "^">>) @@
    ("o'" :> <<"o", "^">>) @@ ("O'" :> <<"O", "^">>)

\* unicodedata.combining(c) # 0
Combining(c) == c = "^"

\* str.isspace for one character
IsSpace(c) == c \in {" ", "\t"}

\* the regex class \w: letters (accented ones too), digits, underscore
IsWord(c) ==
    \/ c \in LowerSet \cup UpperSet \cup DigitSet
    \/ c \in DOMAIN Decomposition
    \/ c = "_"

IndexOf(seq, c) == CHOOSE i \in DOMAIN seq : seq[i] = c

\* str.lower for one character
LowerChar(c) ==
    IF c \in UpperSet THEN LowerLetters[IndexOf(UpperLetters, c)]
    ELSE IF c = "E'" THEN "e'"
    ELSE IF c = "O'" THEN "o'"
    ELSE c

\* str.upper for one character
UpperChar(c) ==
    IF c \in LowerSet THEN UpperLetters[IndexOf(LowerLetters, c)]
    ELSE IF c = "e'" THEN "E'"
    ELSE IF c = "o'" THEN "O'"
    ELSE c

----------------------------------------------------------------------------
(* Strings                                                                 *)

Lower(s) == [i \in DOMAIN s |-> LowerChar(s[i])]
Upper(s) == [i \in DOMAIN s |-> UpperChar(s[i])]

RECURSIVE LStrip(_)
LStrip(s) ==
    IF s # <<>> /\ IsSpace(Head(s)) THEN LStrip(Tail(s)) ELSE s

RECURSIVE RStrip(_)
RStrip(s) ==
    IF s # <<>> /\ IsSpace(s[Len(s)]) THEN RStrip(SubSeq(s, 1, Len(s) - 1)) ELSE s

\* str.strip()
Strip(s) == RStrip(LStrip(s))

\* unicodedata.normalize('NFKD', text)
RECURSIVE NFKD(_)
NFKD(s) ==
    IF s = <<>> THEN <<>>
    ELSE (IF Head(s) \in DOMAIN Decomposition
          THEN Decomposition[Head(s)] ELSE <<Head(s)>>) \o NFKD(Tail(s))

\* ''.join([c for c in text if not unicodedata.combining(c)])
RECURSIVE RemoveCombining(_)
RemoveCombining(s) ==
    IF s = <<>> THEN <<>>
    ELSE (IF Combining(Head(s)) THEN <<>> ELSE <<Head(s)>>) \o RemoveCombining(Tail(s))

\* re.sub(r'[^\w\s\-,]', '', text)
RECURSIVE RemovePunctuation(_)
RemovePunctuation(s) ==
    IF s = <<>> THEN <<>>
    ELSE (IF IsWord(Head(s)) \/ IsSpace(Head(s)) \/ Head(s) \in {"-", ","}
          THEN <<Head(s)>> ELSE <<>>) \o RemovePunctuation(Tail(s))

\* re.sub(r'\s+', ' ', text)
RECURSIVE CollapseSpaces(_)
CollapseSpaces(s) ==
    IF s = <<>> THEN <<>>
    ELSE IF IsSpace(Head(s))
         THEN <<" ">> \o CollapseSpaces(LStrip(s))
         ELSE <<Head(s)>> \o CollapseSpaces(Tail(s))

\* mutant of Normalize: the accents are kept
NormalizeKeepsAccents(text) ==
    IF text = <<>> THEN <<>>
    ELSE CollapseSpaces(RemovePunctuation(Strip(Lower(text))))

\* Gazetteer._normalize
Normalize(text) ==
    IF text = <<>> THEN <<>>
    ELSE CollapseSpaces(RemovePunctuation(Strip(Lower(RemoveCombining(NFKD(text))))))

\* "," in s  /  s.split(',')
Contains(s, c) == \E i \in DOMAIN s : s[i] = c

RECURSIVE Split(_, _)
Split(s, c) ==
    IF ~Contains(s, c) THEN <<s>>
    ELSE LET i == CHOOSE k \in DOMAIN s :
                      s[k] = c /\ \A j \in 1..(k - 1) : s[j] # c
         IN  <<SubSeq(s, 1, i - 1)>> \o Split(SubSeq(s, i + 1, Len(s)), c)

----------------------------------------------------------------------------
(* Number literals: the digit strings float() and int() accept             *)

RECURSIVE DigitsValue(_)
DigitsValue(s) ==
    IF s = <<>> THEN 0
    ELSE DigitsValue(SubSeq(s, 1, Len(s) - 1)) * 10
         + (IndexOf(Digits, s[Len(s)]) - 1)

IsDigits(s) == s # <<>> /\ \A i \in DOMAIN s : s[i] \in DigitSet

\* [ok, n]: ok is FALSE where Python raises ValueError
ParseNumber(text) ==
    LET s    == Strip(text)
        neg  == s # <<>> /\ Head(s) = "-"
        body == IF s # <<>> /\ Head(s) \in {"-", "+"} THEN Tail(s) ELSE s
    IN  IF IsDigits(body)
        THEN [ok |-> TRUE, n |-> IF neg THEN 0 - DigitsValue(body) ELSE DigitsValue(body)]
        ELSE [ok |-> FALSE, n |-> 0]

----------------------------------------------------------------------------
(* Gazetteer: the five lookup tables and their loaders                      *)

\* a Python None, and the result of dict.get on a missing key
None == [none |-> TRUE]

\* dict[key] = value
Put(map, key, value) == (key :> value) @@ map

\* dict.get(key)
Get(map, key) == IF key \in DOMAIN map THEN map[key] ELSE None

Colon == <<":">>

\* self.country_by_iso2 = {} ... self.cities_by_key = {}
EmptyGazetteer ==
    [country_by_iso2 |-> <<>>, country_by_iso3 |-> <<>>, country_by_name |-> <<>>,
     admin1_by_key |-> <<>>, cities_by_key |-> <<>>]

\* a loader's outcome: the tables as the loop left them, and whether it raised
Loaded(g) == [raised |-> FALSE, exc |-> "", gaz |-> g]
Raised(e, g) == [raised |-> TRUE, exc |-> e, gaz |-> g]

\* one iteration of the loop of _load_countries over a csv.DictReader row
LoadCountryRow(g, row) ==
    IF ~({"iso2", "iso3", "name", "lat", "lon"} \subseteq DOMAIN row)
    THEN Raised("KeyError", g)
    ELSE LET lat == ParseNumber(row["lat"])
             lon == ParseNumber(row["lon"])
             pop == IF "population" \in DOMAIN row
                    THEN ParseNumber(row["population"])
                    ELSE [ok |-> TRUE, n |-> 0]
             entry == [lat |-> lat.n, lon |-> lon.n, name |-> row["name"],
                       iso2 |-> Upper(row["iso2"]), iso3 |-> Upper(row["iso3"]),
                       pop |-> pop.n]
         IN  IF ~lat.ok \/ ~lon.ok \/ ~pop.ok
             THEN Raised("ValueError", g)
             ELSE Loaded([g EXCEPT
                     !.country_by_iso2 = Put(@, entry.iso2, entry),
                     !.country_by_iso3 = Put(@, entry.iso3, entry),
                     !.country_by_name = Put(@, Normalize(entry.name), entry)])

\* one iteration of the loop of _load_admin1
LoadAdmin1Row(g, row) ==
    IF ~({"country_iso2", "admin1_name", "lat", "lon"} \subseteq DOMAIN row)
    THEN Raised("KeyError", g)
    ELSE LET lat == ParseNumber(row["lat"])
             lon == ParseNumber(row["lon"])
             country_iso2 == Upper(row["country_iso2"])
             key == country_iso2 \o Colon \o Normalize(row["admin1_name"])
         IN  IF ~lat.ok \/ ~lon.ok
             THEN Raised("ValueError", g)
             ELSE Loaded([g EXCEPT !.admin1_by_key = Put(@, key,
                     [lat |-> lat.n, lon |-> lon.n, name |-> row["admin1_name"],
                      country_iso2 |-> country_iso2])])

\* _load_cities reading the population from a column named population
LoadCityRowPopulationColumn(g, row) ==
    IF ~({"country_iso2", "admin1_name", "city", "lat", "lon"} \subseteq DOMAIN row)
    THEN Raised("KeyError", g)
    ELSE LET lat == ParseNumber(row["lat"])
             lon == ParseNumber(row["lon"])
             pop == IF "population" \in DOMAIN row
                    THEN ParseNumber(row["population"])
                    ELSE [ok |-> TRUE, n |-> 0]
             country_iso2 == Upper(row["country_iso2"])
             norm_city == Normalize(row["city"])
             norm_admin1 == Normalize(row["admin1_name"])
             key == country_iso2 \o Colon \o norm_admin1 \o Colon \o norm_city
             key_country == country_iso2 \o Colon \o norm_city
             entry == [lat |-> lat.n, lon |-> lon.n, name |-> row["city"],
                       admin1_name |-> row["admin1_name"],
                       country_iso2 |-> country_iso2, pop |-> pop.n]
             stored == Put(g.cities_by_key, key, entry)
         IN  IF ~lat.ok \/ ~lon.ok \/ ~pop.ok
             THEN Raised("ValueError", g)
             ELSE Loaded([g EXCEPT !.cities_by_key =
                     IF key_country \notin DOMAIN stored
                        \/ pop.n > stored[key_country].pop
                     THEN Put(stored, key_country, entry)
                     ELSE stored])

\* _load_cities with the admin-agnostic slot taking every row, the last one staying
LoadCityRowLastWins(g, row) ==
    IF ~({"country_iso2", "admin1_name", "city", "lat", "lon"} \subseteq DOMAIN row)
    THEN Raised("KeyError", g)
    ELSE LET lat == ParseNumber(row["lat"])
             lon == ParseNumber(row["lon"])
             pop == IF "pop" \in DOMAIN row
                    THEN ParseNumber(row["pop"])
                    ELSE [ok |-> TRUE, n |-> 0]
             country_iso2 == Upper(row["country_iso2"])
             norm_city == Normalize(row["city"])
             norm_admin1 == Normalize(row["admin1_name"])
             key == country_iso2 \o Colon \o norm_admin1 \o Colon \o norm_city
             key_country == country_iso2 \o Colon \o norm_city
             entry == [lat |-> lat.n, lon |-> lon.n, name |-> row["city"],
                       admin1_name |-> row["admin1_name"],
                       country_iso2 |-> country_iso2, pop |-> pop.n]
         IN  IF ~lat.ok \/ ~lon.ok \/ ~pop.ok
             THEN Raised("ValueError", g)
             ELSE Loaded([g EXCEPT !.cities_by_key =
                     Put(Put(@, key, entry), key_country, entry)])

\* one iteration of the loop of _load_cities
LoadCityRow(g, row) ==
    IF ~({"country_iso2", "admin1_name", "city", "lat", "lon"} \subseteq DOMAIN row)
    THEN Raised("KeyError", g)
    ELSE LET lat == ParseNumber(row["lat"])
             lon == ParseNumber(row["lon"])
             pop == IF "pop" \in DOMAIN row
                    THEN ParseNumber(row["pop"])
                    ELSE [ok |-> TRUE, n |-> 0]
             country_iso2 == Upper(row["country_iso2"])
             norm_city == Normalize(row["city"])
             norm_admin1 == Normalize(row["admin1_name"])
             key == country_iso2 \o Colon \o norm_admin1 \o Colon \o norm_city
             key_country == country_iso2 \o Colon \o norm_city
             entry == [lat |-> lat.n, lon |-> lon.n, name |-> row["city"],
                       admin1_name |-> row["admin1_name"],
                       country_iso2 |-> country_iso2, pop |-> pop.n]
             stored == Put(g.cities_by_key, key, entry)
         IN  IF ~lat.ok \/ ~lon.ok \/ ~pop.ok
             THEN Raised("ValueError", g)
             ELSE Loaded([g EXCEPT !.cities_by_key =
                     IF key_country \notin DOMAIN stored
                        \/ pop.n > stored[key_country].pop
                     THEN Put(stored, key_country, entry)
                     ELSE stored])

\* the for loops of the three loaders: rows in file order, stopping at a raise
RECURSIVE LoadCountryRows(_, _)
LoadCountryRows(g, rows) ==
    IF rows = <<>> THEN Loaded(g)
    ELSE LET r == LoadCountryRow(g, Head(rows))
         IN  IF r.raised THEN r ELSE LoadCountryRows(r.gaz, Tail(rows))

RECURSIVE LoadAdmin1Rows(_, _)
LoadAdmin1Rows(g, rows) ==
    IF rows = <<>> THEN Loaded(g)
    ELSE LET r == LoadAdmin1Row(g, Head(rows))
         IN  IF r.raised THEN r ELSE LoadAdmin1Rows(r.gaz, Tail(rows))

RECURSIVE LoadCityRows(_, _)
LoadCityRows(g, rows) ==
    IF rows = <<>> THEN Loaded(g)
    ELSE LET r == LoadCityRow(g, Head(rows))
         IN  IF r.raised THEN r ELSE LoadCityRows(r.gaz, Tail(rows))

\* _load_cities without the os.path.exists test: open() raises on a missing file
load_cities_opens_unchecked(g, file) ==
    IF ~file.exists THEN Raised("FileNotFoundError", g) ELSE LoadCityRows(g, file.rows)

\* _load_countries / _load_admin1 / _load_cities: a file is [exists, rows]
load_countries(g, file) ==
    IF ~file.exists THEN Loaded(g) ELSE LoadCountryRows(g, file.rows)

load_admin1(g, file) ==
    IF ~file.exists THEN Loaded(g) ELSE LoadAdmin1Rows(g, file.rows)

load_cities(g, file) ==
    IF ~file.exists THEN Loaded(g) ELSE LoadCityRows(g, file.rows)

\* the aliases dict of _build_aliases, in insertion order: <<alias, iso2>>
Aliases ==
    <<<<<<"u","s","a">>, <<"U","S">>>>,
      <<<<"u",".","s",".">>, <<"U","S">>>>,
      <<<<"u","n","i","t","e","d"," ","s","t","a","t","e","s"," ","o","f"," ","a","m","e","r","i","c","a">>, <<"U","S">>>>,
      <<<<"a","m","e","r","i","c","a">>, <<"U","S">>>>,
      <<<<"u","k">>, <<"G","B">>>>,
      <<<<"u","n","i","t","e","d"," ","k","i","n","g","d","o","m">>, <<"G","B">>>>,
      <<<<"b","r","i","t","a","i","n">>, <<"G","B">>>>,
      <<<<"e","n","g","l","a","n","d">>, <<"G","B">>>>,
      <<<<"d","r","c">>, <<"C","D">>>>,
      <<<<"d","e","m","o","c","r","a","t","i","c"," ","r","e","p","u","b","l","i","c"," ","o","f"," ","t","h","e"," ","c","o","n","g","o">>, <<"C","D">>>>,
      <<<<"u","a","e">>, <<"A","E">>>>,
      <<<<"e","m","i","r","a","t","e","s">>, <<"A","E">>>>>>

\* _build_aliases without the test that the key is free
RECURSIVE MergeAliasesOverwriting(_, _)
MergeAliasesOverwriting(g, aliases) ==
    IF aliases = <<>> THEN g
    ELSE LET norm_alias == Normalize(Head(aliases)[1])
             iso2 == Head(aliases)[2]
         IN  MergeAliasesOverwriting(
                 IF iso2 \in DOMAIN g.country_by_iso2
                 THEN [g EXCEPT !.country_by_name =
                          Put(@, norm_alias, g.country_by_iso2[iso2])]
                 ELSE g,
                 Tail(aliases))

RECURSIVE MergeAliases(_, _)
MergeAliases(g, aliases) ==
    IF aliases = <<>> THEN g
    ELSE LET norm_alias == Normalize(Head(aliases)[1])
             iso2 == Head(aliases)[2]
         IN  MergeAliases(
                 IF iso2 \in DOMAIN g.country_by_iso2
                    /\ norm_alias \notin DOMAIN g.country_by_name
                 THEN [g EXCEPT !.country_by_name =
                          Put(@, norm_alias, g.country_by_iso2[iso2])]
                 ELSE g,
                 Tail(aliases))

\* Gazetteer._build_aliases
build_aliases(g) == MergeAliases(g, Aliases)

----------------------------------------------------------------------------
(* Gazetteer: the finders                                                  *)

\* mutant of find_country: the name index is consulted before the codes
find_country_name_first(g, name_or_code) ==
    IF name_or_code = <<>> THEN None
    ELSE LET code_upper == Strip(Upper(name_or_code))
         IN  IF Normalize(name_or_code) \in DOMAIN g.country_by_name
             THEN g.country_by_name[Normalize(name_or_code)]
             ELSE IF Len(code_upper) = 2 /\ code_upper \in DOMAIN g.country_by_iso2
             THEN g.country_by_iso2[code_upper]
             ELSE IF Len(code_upper) = 3 /\ code_upper \in DOMAIN g.country_by_iso3
             THEN g.country_by_iso3[code_upper]
             ELSE None

\* Gazetteer.find_country
find_country(g, name_or_code) ==
    IF name_or_code = <<>> THEN None
    ELSE LET code_upper == Strip(Upper(name_or_code))
         IN  IF Len(code_upper) = 2 /\ code_upper \in DOMAIN g.country_by_iso2
             THEN g.country_by_iso2[code_upper]
             ELSE IF Len(code_upper) = 3 /\ code_upper \in DOMAIN g.country_by_iso3
             THEN g.country_by_iso3[code_upper]
             ELSE Get(g.country_by_name, Normalize(name_or_code))

\* Gazetteer.find_admin1
find_admin1(g, country_code, admin1_name) ==
    IF country_code = <<>> \/ admin1_name = <<>> THEN None
    ELSE Get(g.admin1_by_key,
             Strip(Upper(country_code)) \o Colon \o Normalize(admin1_name))

\* mutant of find_city: the admin-agnostic slot is tried first
find_city_agnostic_first(g, country_code, admin1_name, city_name) ==
    IF country_code = <<>> \/ city_name = <<>> THEN None
    ELSE LET country_code_upper == Strip(Upper(country_code))
             norm_city == Normalize(city_name)
             key == country_code_upper \o Colon \o Normalize(admin1_name)
                    \o Colon \o norm_city
             key_country == country_code_upper \o Colon \o norm_city
         IN  IF key_country \in DOMAIN g.cities_by_key
             THEN g.cities_by_key[key_country]
             ELSE IF admin1_name # <<>> THEN Get(g.cities_by_key, key)
             ELSE None

\* Gazetteer.find_city; a None admin1_name is the empty text here, both are falsy
find_city(g, country_code, admin1_name, city_name) ==
    IF country_code = <<>> \/ city_name = <<>> THEN None
    ELSE LET country_code_upper == Strip(Upper(country_code))
             norm_city == Normalize(city_name)
             key == country_code_upper \o Colon \o Normalize(admin1_name)
                    \o Colon \o norm_city
             key_country == country_code_upper \o Colon \o norm_city
         IN  IF admin1_name # <<>> /\ key \in DOMAIN g.cities_by_key
             THEN g.cities_by_key[key]
             ELSE Get(g.cities_by_key, key_country)

----------------------------------------------------------------------------
(* Python values of a record's fields                                      *)

\* t: "absent" (no such key), "none", "num", "str", "list"
Absent  == [t |-> "absent", n |-> 0, s |-> <<>>, l |-> <<>>]
PyNone  == [t |-> "none",   n |-> 0, s |-> <<>>, l |-> <<>>]
Num(n)  == [t |-> "num",    n |-> n, s |-> <<>>, l |-> <<>>]
Str(s)  == [t |-> "str",    n |-> 0, s |-> s,    l |-> <<>>]
List(l) == [t |-> "list",   n |-> 0, s |-> <<>>, l |-> l]

\* bool(v)
Truthy(v) ==
    CASE v.t = "num"  -> v.n # 0
      [] v.t = "str"  -> v.s # <<>>
      [] v.t = "list" -> v.l # <<>>
      [] OTHER        -> FALSE

\* float(v): [ok, exc, n]
ToFloat(v) ==
    CASE v.t = "num" -> [ok |-> TRUE, exc |-> "", n |-> v.n]
      [] v.t = "str" -> LET p == ParseNumber(v.s)
                        IN  [ok |-> p.ok, exc |-> IF p.ok THEN "" ELSE "ValueError",
                             n |-> p.n]
      [] OTHER       -> [ok |-> FALSE, exc |-> "TypeError", n |-> 0]

ValidLat(lat) == -90 <= lat /\ lat <= 90
ValidLon(lon) == -180 <= lon /\ lon <= 180

\* the items of a value that iterates: a list's elements, a str's characters
Items(v) ==
    IF v.t = "str" THEN [i \in DOMAIN v.s |-> Str(<<v.s[i]>>)] ELSE v.l

\* the mean of two coordinates; the boxes of this model hold even numbers
Mid(a, b) == (a + b) \div 2

\* a (lat, lon) tuple
Point(lat, lon) == [lat |-> lat, lon |-> lon]

\* mutant of bbox_centroid: the box is read as [minLat, minLon, maxLat, maxLon]
bbox_centroid_lat_first(bbox) ==
    IF ~Truthy(bbox) THEN [raised |-> FALSE, exc |-> "", value |-> None]
    ELSE IF bbox.t \notin {"str", "list"}
    THEN [raised |-> TRUE, exc |-> "TypeError", value |-> None]
    ELSE LET items == Items(bbox)
             f == [i \in DOMAIN items |-> ToFloat(items[i])]
             lat == Mid(f[1].n, f[3].n)
             lon == Mid(f[2].n, f[4].n)
         IN  IF Len(items) = 4 /\ (\A i \in 1..4 : f[i].ok)
                /\ ValidLat(lat) /\ ValidLon(lon)
             THEN [raised |-> FALSE, exc |-> "", value |-> Point(lat, lon)]
             ELSE [raised |-> FALSE, exc |-> "", value |-> None]

\* bbox_centroid: [raised, exc, value], value None or a Point
bbox_centroid(bbox) ==
    IF ~Truthy(bbox) THEN [raised |-> FALSE, exc |-> "", value |-> None]
    ELSE IF bbox.t \notin {"str", "list"}
    THEN [raised |-> TRUE, exc |-> "TypeError", value |-> None]
    ELSE LET items == Items(bbox)
             f == [i \in DOMAIN items |-> ToFloat(items[i])]
             lat == Mid(f[2].n, f[4].n)
             lon == Mid(f[1].n, f[3].n)
         IN  IF Len(items) = 4 /\ (\A i \in 1..4 : f[i].ok)
                /\ ValidLat(lat) /\ ValidLon(lon)
             THEN [raised |-> FALSE, exc |-> "", value |-> Point(lat, lon)]
             ELSE [raised |-> FALSE, exc |-> "", value |-> None]

----------------------------------------------------------------------------
(* resolve_location                                                        *)

TextFields == {"country_code", "country", "admin1", "city", "place_name"}

\* result.get(field, '').strip()
TextOf(v) == IF v.t = "str" THEN Strip(v.s) ELSE <<>>

\* .strip() exists on a str only
HasStrip(v) == v.t \in {"absent", "str"}

\* result = rec.copy(); the three loc_ keys initialised
StartResult(rec) ==
    [lat |-> rec.lat, lon |-> rec.lon, bbox |-> rec.bbox,
     country_code |-> rec.country_code, country |-> rec.country,
     admin1 |-> rec.admin1, city |-> rec.city, place_name |-> rec.place_name,
     loc_method |-> "none", loc_confidence |-> 0, loc_notes |-> <<>>]

Returned(result) == [raised |-> FALSE, exc |-> "", result |-> result]
Raises(exc) == [raised |-> TRUE, exc |-> exc, result |-> None]

\* mutant of Located: the tier forgets to set loc_confidence
LocatedKeepsConfidence(result, lat, lon, method, confidence, notes) ==
    Returned([result EXCEPT !.lat = Num(lat), !.lon = Num(lon),
                            !.loc_method = method,
                            !.loc_notes = notes])

Located(result, lat, lon, method, confidence, notes) ==
    Returned([result EXCEPT !.lat = Num(lat), !.lon = Num(lon),
                            !.loc_method = method,
                            !.loc_confidence = confidence,
                            !.loc_notes = notes])

\* lines 40-52 without the range test of line 44
ProvidedPointUnchecked(rec) ==
    IF rec.lat.t \in {"absent", "none"} \/ rec.lon.t \in {"absent", "none"}
    THEN None
    ELSE LET lat == ToFloat(rec.lat)
             lon == ToFloat(rec.lon)
         IN  IF lat.ok /\ lon.ok
             THEN Point(lat.n, lon.n)
             ELSE None

\* lines 40-52: the provided point, None when the tier does not apply
ProvidedPoint(rec) ==
    IF rec.lat.t \in {"absent", "none"} \/ rec.lon.t \in {"absent", "none"}
    THEN None
    ELSE LET lat == ToFloat(rec.lat)
             lon == ToFloat(rec.lon)
         IN  IF lat.ok /\ lon.ok /\ ValidLat(lat.n) /\ ValidLon(lon.n)
             THEN Point(lat.n, lon.n)
             ELSE None

\* mutant of ResolveCountry: the country name is preferred over the code
ResolveCountryNameFirst(g, country_code, country_name) ==
    LET by_name == IF country_name # <<>> THEN find_country(g, country_name) ELSE None
    IN  IF by_name = None /\ country_code # <<>>
        THEN find_country(g, country_code)
        ELSE by_name

\* lines 70-74
ResolveCountry(g, country_code, country_name) ==
    LET by_code == IF country_code # <<>> THEN find_country(g, country_code) ELSE None
    IN  IF by_code = None /\ country_name # <<>>
        THEN find_country(g, country_name)
        ELSE by_code

\* lines 82-87 starting from 0.65
CityConfidenceLowBase(admin1_name, city_data) ==
    LET base == 65
        with_admin == IF admin1_name # <<>> THEN base + 5 ELSE base
        with_pop == IF city_data.pop > 1000000 THEN with_admin + 5 ELSE with_admin
    IN  IF with_pop < 100 THEN with_pop ELSE 100

\* mutant of CityConfidence: a population of exactly 1,000,000 earns the bonus
CityConfidenceFromMillion(admin1_name, city_data) ==
    LET base == 75
        with_admin == IF admin1_name # <<>> THEN base + 5 ELSE base
        with_pop == IF city_data.pop >= 1000000 THEN with_admin + 5 ELSE with_admin
    IN  IF with_pop < 100 THEN with_pop ELSE 100

\* lines 82-87, in hundredths
CityConfidence(admin1_name, city_data) ==
    LET base == 75
        with_admin == IF admin1_name # <<>> THEN base + 5 ELSE base
        with_pop == IF city_data.pop > 1000000 THEN with_admin + 5 ELSE with_admin
    IN  IF with_pop < 100 THEN with_pop ELSE 100

\* lines 64-126: the tiers that need the gazetteer
ResolveByNames(g, result) ==
    LET country_code == Upper(TextOf(result.country_code))
        country_name == TextOf(result.country)
        admin1_name  == TextOf(result.admin1)
        city_name    == TextOf(result.city)
        place_name   == TextOf(result.place_name)
        country_data == ResolveCountry(g, country_code, country_name)
        city_data    == find_city(g, country_data.iso2, admin1_name, city_name)
        parts        == LET raw == Split(place_name, ",")
                        IN  [i \in DOMAIN raw |-> Strip(raw[i])]
        place_city   == find_city(g, country_data.iso2, parts[2], parts[1])
        admin1_data  == find_admin1(g, country_data.iso2, admin1_name)
    IN  IF country_data = None
        THEN Returned([result EXCEPT !.loc_notes = <<"Could not resolve location">>])
        ELSE IF city_name # <<>> /\ city_data # None
        THEN Located(result, city_data.lat, city_data.lon, "city_geocode",
                     CityConfidence(admin1_name, city_data),
                     <<"City: ">> \o city_data.name \o <<", ">> \o country_data.name)
        ELSE IF place_name # <<>> /\ Contains(place_name, ",") /\ Len(parts) >= 2
                /\ place_city # None
        THEN Located(result, place_city.lat, place_city.lon, "city_geocode", 72,
                     <<"Parsed from place name: ">> \o place_city.name)
        ELSE IF admin1_name # <<>> /\ admin1_data # None
        THEN Located(result, admin1_data.lat, admin1_data.lon, "admin1_centroid", 70,
                     <<"Admin1: ">> \o admin1_data.name \o <<", ">> \o country_data.name)
        ELSE Located(result, country_data.lat, country_data.lon, "country_centroid", 60,
                     <<"Country: ">> \o country_data.name)

\* mutant of resolve_location: the bounding box is tried before the point
resolve_location_bbox_first(rec, g) ==
    LET result   == StartResult(rec)
        point    == ProvidedPoint(rec)
        centroid == bbox_centroid(rec.bbox)
    IN  IF Truthy(rec.bbox) /\ centroid.raised
        THEN Raises(centroid.exc)
        ELSE IF Truthy(rec.bbox) /\ centroid.value # None
        THEN Located(result, centroid.value.lat, centroid.value.lon, "bbox_centroid", 80,
                     <<"Centroid of bounding box">>)
        ELSE IF point # None
        THEN Located(result, point.lat, point.lon, "provided_point", 100,
                     <<"Coordinates provided in source data">>)
        ELSE IF \E f \in TextFields : ~HasStrip(rec[f])
        THEN Raises("AttributeError")
        ELSE ResolveByNames(g, result)

\* resolve_location(rec, gaz): [raised, exc, result]
resolve_location(rec, g) ==
    LET result   == StartResult(rec)
        point    == ProvidedPoint(rec)
        centroid == bbox_centroid(rec.bbox)
    IN  IF point # None
        THEN Located(result, point.lat, point.lon, "provided_point", 100,
                     <<"Coordinates provided in source data">>)
        ELSE IF Truthy(rec.bbox) /\ centroid.raised
        THEN Raises(centroid.exc)
        ELSE IF Truthy(rec.bbox) /\ centroid.value # None
        THEN Located(result, centroid.value.lat, centroid.value.lon, "bbox_centroid", 80,
                     <<"Centroid of bounding box">>)
        ELSE IF \E f \in TextFields : ~HasStrip(rec[f])
        THEN Raises("AttributeError")
        ELSE ResolveByNames(g, result)

----------------------------------------------------------------------------
(* Texts used by the reference rows, the signals and the queries           *)

MX2 == <<"M","X">>
MXLOW2 == <<"m","x">>
MX3 == <<"M","E","X">>
MXNAME == <<"M","e'","x","i","c","o">>
MXUPPER == <<"M","E'","X","I","C","O">>
MXLOWER == <<"m","e","x","i","c","o">>
ME2 == <<"M","E">>
ME3 == <<"M","N","E">>
MENAME == <<"M","e","x">>
MEACC == <<"M","e'","x">>
MELOW == <<"m","e">>
ZZ == <<"Z","z">>
GTO == <<"G","t","o">>
GTOLOW == <<"g","t","o">>
NLE == <<"N","l","e">>
LEONACC == <<"L","e","o'","n">>
LEON == <<"L","e","o","n">>
LEONLOW == <<"l","e","o","n">>
PLACE == <<"L","e","o","n",","," ","N","l","e">>
T23 == <<"2","3">>
TM102 == <<"-","1","0","2">>
T130 == <<"1","3","0">>
T95 == <<"9","5">>
T19 == <<"1","9">>
T1 == <<"1">>
T21 == <<"2","1">>
TM101 == <<"-","1","0","1">>
T25 == <<"2","5">>
TM100 == <<"-","1","0","0">>
T1500000 == <<"1","5","0","0","0","0","0">>
US2 == <<"U","S">>
US3 == <<"U","S","A">>
USNAME == <<"U","n","i","t","e","d"," ","S","t","a","t","e","s">>
USALOW == <<"u","s","a">>
USDOTS == <<"U",".","S",".">>
AMERICA == <<"A","M","E","R","I","C","A">>
T39 == <<"3","9">>
TM98 == <<"-","9","8">>
T330 == <<"3","3","0">>
T1000000 == <<"1","0","0","0","0","0","0">>

----------------------------------------------------------------------------
(* Reference files and signals the model runs on                           *)

\* rows a reference file holds at most
MaxRows == 2

\* the sequences without repetition of at most n elements of S
RowsUpTo(S, n) ==
    UNION {{r \in [1..k -> S] : \A i, j \in 1..k : i # j => r[i] # r[j]} : k \in 0..n}

CountryRowPool ==
    {[iso2 |-> MX2, iso3 |-> MX3, name |-> MXNAME,
      lat |-> T23, lon |-> TM102, population |-> T130],
     [iso2 |-> ME2, iso3 |-> ME3, name |-> MENAME,
      lat |-> T95, lon |-> T19, population |-> T1],
     [iso2 |-> US2, iso3 |-> US3, name |-> USNAME,
      lat |-> T39, lon |-> TM98, population |-> T330]}

Admin1RowPool ==
    {[country_iso2 |-> MX2, admin1_name |-> GTO, lat |-> T21, lon |-> TM101]}

CityRowPool ==
    {[country_iso2 |-> MX2, admin1_name |-> GTO, city |-> LEONACC,
      lat |-> T21, lon |-> TM102, pop |-> T1500000],
     [country_iso2 |-> MX2, admin1_name |-> NLE, city |-> LEON,
      lat |-> T25, lon |-> TM100, pop |-> T1000000]}

CountryFiles == {[exists |-> TRUE, rows |-> r] : r \in RowsUpTo(CountryRowPool, MaxRows)}
Admin1Files  == {[exists |-> TRUE, rows |-> r] : r \in RowsUpTo(Admin1RowPool, MaxRows)}
CityFiles    == {[exists |-> TRUE, rows |-> r] : r \in RowsUpTo(CityRowPool, MaxRows)}

LatValues == {Absent, Num(40), Num(100), Str(<<"x">>)}
LonValues == {Absent, Num(-9), Num(200)}
BboxValues ==
    {Absent, List(<<Num(-10), Num(40), Num(-8), Num(42)>>),
     List(<<Num(0), Num(0)>>), Num(5)}
CountryCodeValues == {Absent, Str(MELOW)}
CountryValues == {Absent, Str(MXUPPER), Str(ZZ), PyNone}
Admin1Values == {Absent, Str(GTOLOW)}
CityValues == {Absent, Str(LEONLOW), Num(7)}
PlaceNameValues == {Absent, Str(PLACE)}

Signals ==
    [lat : LatValues, lon : LonValues, bbox : BboxValues,
     country_code : CountryCodeValues, country : CountryValues,
     admin1 : Admin1Values, city : CityValues, place_name : PlaceNameValues]

CountryQueries ==
    {<<>>, MELOW, ME2, MX3, MXNAME, MXUPPER, MXLOWER, MENAME, MEACC, ZZ,
     USALOW, USDOTS, AMERICA, USNAME}

CityQueries ==
    {<<c, a, n>> : c \in {<<>>, MX2, MXLOW2}, a \in {<<>>, GTO, NLE, ZZ},
                   n \in {<<>>, LEON, LEONACC}}

\* items a bounding box holds at most
MaxBoxLen == 5

BoxItems == {Num(-200), Num(-180), Num(0), Num(40), Num(180), Str(<<"x">>)}

BoxInputs ==
    {List(l) : l \in UNION {[1..k -> BoxItems] : k \in 0..MaxBoxLen}}
    \cup {Absent, PyNone, Num(5), Str(<<"0", "0", "2", "4">>)}

----------------------------------------------------------------------------
(* The program: construction of the Gazetteer, then calls on it            *)

Idle == [op |-> "idle"]

Init ==
    /\ pc = "load_countries"
    /\ tables \in [countries : CountryFiles, admin1 : Admin1Files, cities : CityFiles]
    /\ gaz = EmptyGazetteer
    /\ call = Idle

\* Gazetteer.__init__, one step per loader; a raise ends the construction
Step(r, next) ==
    /\ gaz' = r.gaz
    /\ pc' = IF r.raised THEN "crashed" ELSE next
    /\ UNCHANGED <<tables, call>>

LoadCountries ==
    /\ pc = "load_countries"
    /\ Step(load_countries(gaz, tables.countries), "load_admin1")

LoadAdmin1 ==
    /\ pc = "load_admin1"
    /\ Step(load_admin1(gaz, tables.admin1), "load_cities")

LoadCities ==
    /\ pc = "load_cities"
    /\ Step(load_cities(gaz, tables.cities), "build_aliases")

BuildAliases ==
    /\ pc = "build_aliases"
    /\ gaz' = build_aliases(gaz)
    /\ pc' = "ready"
    /\ UNCHANGED <<tables, call>>

\* the signal after a call that wrote into rec itself instead of into a copy
RecAfterWithoutCopy(rec, g) ==
    LET out == resolve_location(rec, g)
    IN  IF out.raised THEN rec ELSE [f \in DOMAIN rec |-> out.result[f]]

\* the signal as the caller holds it after the call: resolve_location reads
\* its fields with rec.get and builds its result in a dict of its own
RecAfter(rec, g) == rec

\* resolve_location keeping the country it found under the upper-cased name it was given
ResolveFromCaching(S) ==
    /\ pc = "ready"
    /\ \E rec \in S :
           /\ call' = [op |-> "resolve_location", rec |-> rec,
                       out |-> resolve_location(rec, gaz),
                       rec_after |-> RecAfter(rec, gaz)]
           /\ gaz' = IF HasStrip(rec.country) /\ find_country(gaz, TextOf(rec.country)) # None
                     THEN [gaz EXCEPT !.country_by_name =
                              Put(@, Upper(TextOf(rec.country)),
                                  find_country(gaz, TextOf(rec.country)))]
                     ELSE gaz
    /\ pc' = "called"
    /\ UNCHANGED tables

\* a caller's resolve_location(rec, gaz), as enrich_events makes it
ResolveFrom(S) ==
    /\ pc = "ready"
    /\ \E rec \in S :
           call' = [op |-> "resolve_location", rec |-> rec,
                    out |-> resolve_location(rec, gaz),
                    rec_after |-> RecAfter(rec, gaz)]
    /\ pc' = "called"
    /\ UNCHANGED <<tables, gaz>>

FindCountryFrom(Q) ==
    /\ pc = "ready"
    /\ \E q \in Q :
           call' = [op |-> "find_country", name_or_code |-> q,
                    out |-> find_country(gaz, q)]
    /\ pc' = "called"
    /\ UNCHANGED <<tables, gaz>>

FindAdmin1From(Q) ==
    /\ pc = "ready"
    /\ \E q \in Q :
           call' = [op |-> "find_admin1", country_code |-> q[1], admin1_name |-> q[2],
                    out |-> find_admin1(gaz, q[1], q[2])]
    /\ pc' = "called"
    /\ UNCHANGED <<tables, gaz>>

FindCityFrom(Q) ==
    /\ pc = "ready"
    /\ \E q \in Q :
           call' = [op |-> "find_city", country_code |-> q[1], admin1_name |-> q[2],
                    city_name |-> q[3], out |-> find_city(gaz, q[1], q[2], q[3])]
    /\ pc' = "called"
    /\ UNCHANGED <<tables, gaz>>

Resolve == ResolveFrom(Signals)

FindCountry == FindCountryFrom(CountryQueries)

FindCity == FindCityFrom(CityQueries)

\* the caller takes the result; the gazetteer serves the next call
Return ==
    /\ pc = "called"
    /\ pc' = "ready"
    /\ call' = Idle
    /\ UNCHANGED <<tables, gaz>>

Next ==
    \/ LoadCountries
    \/ LoadAdmin1
    \/ LoadCities
    \/ BuildAliases
    \/ Resolve
    \/ FindCountry
    \/ FindCity
    \/ Return

Spec == Init /\ [][Next]_vars

\* bbox_centroid on its own: a pure function, applied to one box
NoFile == [exists |-> FALSE, rows |-> <<>>]

InitBbox ==
    /\ pc = "bbox"
    /\ tables = [countries |-> NoFile, admin1 |-> NoFile, cities |-> NoFile]
    /\ gaz = EmptyGazetteer
    /\ call = Idle

BboxCentroid ==
    /\ pc = "bbox"
    /\ \E b \in BoxInputs :
           call' = [op |-> "bbox_centroid", bbox |-> b, out |-> bbox_centroid(b)]
    /\ pc' = "bbox_called"
    /\ UNCHANGED <<tables, gaz>>

BboxReturn ==
    /\ pc = "bbox_called"
    /\ pc' = "bbox"
    /\ call' = Idle
    /\ UNCHANGED <<tables, gaz>>

NextBbox == BboxCentroid \/ BboxReturn

SpecBbox == InitBbox /\ [][NextBbox]_vars

----------------------------------------------------------------------------
(* The loaders on files that may be missing, carry a damaged row, or use   *)
(* other column names than the loaders read                                *)

XA2 == <<"X","A">>
XA3 == <<"X","A","M">>
AMERICANAME == <<"A","m","e","r","i","c","a">>
NOTANUMBER == <<"x">>
T40 == <<"4","0">>
TM99 == <<"-","9","9">>

USRow ==
    [iso2 |-> US2, iso3 |-> US3, name |-> AMERICANAME,
     lat |-> T39, lon |-> TM98, population |-> T330]
XARow ==
    [iso2 |-> XA2, iso3 |-> XA3, name |-> AMERICA,
     lat |-> T23, lon |-> T19, population |-> T1]
DamagedCountryRow ==
    [iso2 |-> ME2, iso3 |-> ME3, name |-> MENAME,
     lat |-> NOTANUMBER, lon |-> T19, population |-> T1]

GtoRow == [country_iso2 |-> US2, admin1_name |-> GTO, lat |-> T21, lon |-> TM101]
GtoRowAgain == [country_iso2 |-> US2, admin1_name |-> GTOLOW, lat |-> T40, lon |-> TM99]
DamagedAdmin1Row == [country_iso2 |-> US2, admin1_name |-> NLE, lat |-> T25, lon |-> NOTANUMBER]
\* a row under the column name admin_name
DocumentedAdmin1Row == [country_iso2 |-> US2, admin_name |-> GTO, lat |-> T21, lon |-> TM101]

LeonGtoRow ==
    [country_iso2 |-> US2, admin1_name |-> GTO, city |-> LEONACC,
     lat |-> T21, lon |-> TM102, pop |-> T1500000]
LeonNleRow ==
    [country_iso2 |-> US2, admin1_name |-> NLE, city |-> LEON,
     lat |-> T25, lon |-> TM100, pop |-> T1000000]
DamagedCityRow ==
    [country_iso2 |-> US2, admin1_name |-> GTO, city |-> PLACE,
     lat |-> T21, lon |-> TM102, pop |-> NOTANUMBER]
\* a row of a file without the pop column
NoPopCityRow ==
    [country_iso2 |-> US2, admin1_name |-> GTO, city |-> LEONACC,
     lat |-> T21, lon |-> TM102]
\* a row under the column names admin_name and population
DocumentedCityRow ==
    [country_iso2 |-> US2, admin_name |-> GTO, city |-> LEONACC,
     lat |-> T21, lon |-> TM102, population |-> T1500000]

File(rows) == [exists |-> TRUE, rows |-> rows]

LoadCountryFiles ==
    {NoFile} \cup {File(r) : r \in RowsUpTo({USRow, XARow, DamagedCountryRow}, MaxRows)}
LoadAdmin1Files ==
    {NoFile, File(<<DocumentedAdmin1Row>>)}
    \cup {File(r) : r \in RowsUpTo({GtoRow, GtoRowAgain, DamagedAdmin1Row}, MaxRows)}
LoadCityFiles ==
    {NoFile, File(<<NoPopCityRow>>), File(<<DocumentedCityRow>>)}
    \cup {File(r) : r \in RowsUpTo({LeonGtoRow, LeonNleRow, DamagedCityRow}, MaxRows)}

LoadSignals ==
    [lat : {Absent, Num(40)}, lon : {Num(-9)},
     bbox : {Absent, List(<<Num(-10), Num(40), Num(-8), Num(42)>>)},
     country_code : {Absent}, country : {Absent, Str(USALOW)},
     admin1 : {Absent, Str(GTOLOW)}, city : {Absent, Str(LEONLOW)},
     place_name : {Absent, Str(PLACE)}]

LoadCountryQueries == {<<>>, US2, XA3, USALOW, USDOTS, AMERICA, AMERICANAME, ZZ}

LoadAdmin1Queries == {<<c, a>> : c \in {<<>>, US2, XA2}, a \in {<<>>, GTO, GTOLOW, NLE}}

LoadCityQueries ==
    {<<c, a, n>> : c \in {<<>>, US2}, a \in {<<>>, GTO, NLE, ZZ},
                   n \in {<<>>, LEON, LEONACC}}

InitLoad ==
    /\ pc = "load_countries"
    /\ tables \in [countries : LoadCountryFiles, admin1 : LoadAdmin1Files,
                   cities : LoadCityFiles]
    /\ gaz = EmptyGazetteer
    /\ call = Idle

ResolveLoaded == ResolveFrom(LoadSignals)

FindCountryLoaded == FindCountryFrom(LoadCountryQueries)

FindAdmin1Loaded == FindAdmin1From(LoadAdmin1Queries)

FindCityLoaded == FindCityFrom(LoadCityQueries)

NextLoad ==
    \/ LoadCountries
    \/ LoadAdmin1
    \/ LoadCities
    \/ BuildAliases
    \/ ResolveLoaded
    \/ FindCountryLoaded
    \/ FindAdmin1Loaded
    \/ FindCityLoaded
    \/ Return

SpecLoad == InitLoad /\ [][NextLoad]_vars

----------------------------------------------------------------------------
(* The tiers as the specification states them                              *)

ResolveCall == call.op = "resolve_location"
ReturnedCall == ResolveCall /\ ~call.out.raised

\* tier 1: lat and lon present, numeric, within the valid ranges
HasPoint(rec) ==
    LET lat == ToFloat(rec.lat)
        lon == ToFloat(rec.lon)
    IN  lat.ok /\ lon.ok /\ ValidLat(lat.n) /\ ValidLon(lon.n)

\* tier 2: four numeric values whose midpoint is in the valid ranges
HasBox(rec) ==
    /\ rec.bbox.t \in {"list", "str"}
    /\ Len(Items(rec.bbox)) = 4
    /\ \A i \in 1..4 : ToFloat(Items(rec.bbox)[i]).ok
    /\ ValidLat(Mid(ToFloat(Items(rec.bbox)[2]).n, ToFloat(Items(rec.bbox)[4]).n))
    /\ ValidLon(Mid(ToFloat(Items(rec.bbox)[1]).n, ToFloat(Items(rec.bbox)[3]).n))

CodeCountry(g, rec) ==
    IF TextOf(rec.country_code) # <<>>
    THEN find_country(g, Upper(TextOf(rec.country_code))) ELSE None

NameCountry(g, rec) ==
    IF TextOf(rec.country) # <<>> THEN find_country(g, TextOf(rec.country)) ELSE None

\* the country of tiers 3-6: by code, else by name
SignalCountry(g, rec) ==
    IF CodeCountry(g, rec) # None THEN CodeCountry(g, rec) ELSE NameCountry(g, rec)

StructuredCity(g, rec) ==
    IF SignalCountry(g, rec) = None THEN None
    ELSE find_city(g, SignalCountry(g, rec).iso2, TextOf(rec.admin1), TextOf(rec.city))

PlaceParts(rec) ==
    LET raw == Split(TextOf(rec.place_name), ",")
    IN  [i \in DOMAIN raw |-> Strip(raw[i])]

PlaceCity(g, rec) ==
    IF SignalCountry(g, rec) = None \/ Len(PlaceParts(rec)) < 2 THEN None
    ELSE find_city(g, SignalCountry(g, rec).iso2, PlaceParts(rec)[2], PlaceParts(rec)[1])

SignalAdmin1(g, rec) ==
    IF SignalCountry(g, rec) = None THEN None
    ELSE find_admin1(g, SignalCountry(g, rec).iso2, TextOf(rec.admin1))

\* the number of the first tier of the table whose trigger holds
FirstTier(g, rec) ==
    CASE HasPoint(rec)                  -> 1
      [] HasBox(rec)                    -> 2
      [] StructuredCity(g, rec) # None  -> 3
      [] PlaceCity(g, rec) # None       -> 4
      [] SignalAdmin1(g, rec) # None    -> 5
      [] SignalCountry(g, rec) # None   -> 6
      [] OTHER                          -> 7

TierMethod ==
    <<"provided_point", "bbox_centroid", "city_geocode", "city_geocode",
      "admin1_centroid", "country_centroid", "none">>

TierConfidence == <<{100}, {80}, {75, 80, 85}, {72}, {70}, {60}, {0}>>

----------------------------------------------------------------------------
(* Claims                                                                  *)

\* C1: a returned record carries the method and the confidence of the first
\* tier, in the order provided_point, bbox_centroid, structured city,
\* place-name city, admin1_centroid, country_centroid, none, whose trigger
\* holds; with valid coordinates and a valid bbox it is provided_point.
C1_FirstTierWins ==
    ReturnedCall =>
        LET t == FirstTier(gaz, call.rec)
        IN  /\ call.out.result.loc_method = TierMethod[t]
            /\ call.out.result.loc_confidence \in TierConfidence[t]

C1_Witness ==
    /\ ReturnedCall
    /\ HasPoint(call.rec) /\ HasBox(call.rec)
    /\ StructuredCity(gaz, call.rec) # None
    /\ call.out.result.loc_method = "provided_point"

\* C2: the confidence of a returned record lies in [0.0, 1.0], and it is 0.0
\* exactly when the method is none.
C2_ConfidenceRange ==
    ReturnedCall =>
        /\ 0 <= call.out.result.loc_confidence
        /\ call.out.result.loc_confidence <= 100
        /\ (call.out.result.loc_confidence = 0 <=> call.out.result.loc_method = "none")

C2_Witness ==
    /\ ReturnedCall
    /\ call.out.result.loc_method = "none"
    /\ call.out.result.loc_confidence = 0
    /\ call.rec.lat # Absent

\* C3: resolve_location returns a record and never raises, whatever fields are
\* absent or malformed.
C3_NeverRaises == ResolveCall => ~call.out.raised

\* C4: a returned record whose method is not none has lat in [-90, 90] and lon
\* in [-180, 180], for every gazetteer the loaders build.
C4_CoordinatesInRange ==
    (ReturnedCall /\ call.out.result.loc_method # "none") =>
        /\ ValidLat(call.out.result.lat.n)
        /\ ValidLon(call.out.result.lon.n)

\* a box of exactly four numeric values
BboxCall == call.op = "bbox_centroid" /\ ~call.out.raised

BoxNumbers(b) == [i \in DOMAIN Items(b) |-> ToFloat(Items(b)[i])]

FourNumbers(b) ==
    /\ b.t \in {"list", "str"}
    /\ Len(Items(b)) = 4
    /\ \A i \in 1..4 : BoxNumbers(b)[i].ok

MinLon(b) == BoxNumbers(b)[1].n
MinLat(b) == BoxNumbers(b)[2].n
MaxLon(b) == BoxNumbers(b)[3].n
MaxLat(b) == BoxNumbers(b)[4].n

MidpointValid(b) ==
    /\ ValidLat((MinLat(b) + MaxLat(b)) \div 2)
    /\ ValidLon((MinLon(b) + MaxLon(b)) \div 2)

ReturnsMidpoint(b, out) ==
    /\ out.value # None
    /\ out.value.lat * 2 = MinLat(b) + MaxLat(b)
    /\ out.value.lon * 2 = MinLon(b) + MaxLon(b)

WithinBox(b, out) ==
    /\ MinLat(b) <= out.value.lat /\ out.value.lat <= MaxLat(b)
    /\ MinLon(b) <= out.value.lon /\ out.value.lon <= MaxLon(b)

\* C5 as stated: on four numeric values with a valid midpoint bbox_centroid
\* returns the midpoint, which lies within the box; otherwise it returns none.
C5_MidpointWithinBox ==
    BboxCall =>
        IF FourNumbers(call.bbox) /\ MidpointValid(call.bbox)
        THEN ReturnsMidpoint(call.bbox, call.out) /\ WithinBox(call.bbox, call.out)
        ELSE call.out.value = None

\* C5 amended: on four numeric values with a valid midpoint bbox_centroid
\* returns the midpoint, and the midpoint lies within the box when
\* minLat <= maxLat and minLon <= maxLon; otherwise it returns none.
C5_MidpointOfOrderedBox ==
    BboxCall =>
        IF FourNumbers(call.bbox) /\ MidpointValid(call.bbox)
        THEN /\ ReturnsMidpoint(call.bbox, call.out)
             /\ (MinLat(call.bbox) <= MaxLat(call.bbox)
                 /\ MinLon(call.bbox) <= MaxLon(call.bbox))
                    => WithinBox(call.bbox, call.out)
        ELSE call.out.value = None

C5_Witness ==
    /\ BboxCall
    /\ FourNumbers(call.bbox)
    /\ MinLat(call.bbox) < MaxLat(call.bbox)
    /\ MinLon(call.bbox) < MaxLon(call.bbox)
    /\ call.out.value = Point(20, 20)

\* C6: when the structured city tier succeeds the confidence is 0.75, plus
\* 0.05 if an admin name was supplied, plus 0.05 if the matched city has more
\* than 1,000,000 inhabitants; it is one of 0.75, 0.80, 0.85, and 0.80 for a
\* signal with country and city only that matches a city of more than 1,000,000.
C6_CityConfidence ==
    (ReturnedCall /\ FirstTier(gaz, call.rec) = 3) =>
        LET admin == IF TextOf(call.rec.admin1) # <<>> THEN 5 ELSE 0
            big   == IF StructuredCity(gaz, call.rec).pop > 1000000 THEN 5 ELSE 0
        IN  /\ call.out.result.loc_confidence = 75 + admin + big
            /\ call.out.result.loc_confidence \in {75, 80, 85}
            /\ (admin = 0 /\ big = 5) => call.out.result.loc_confidence = 80

C6_Witness ==
    /\ ReturnedCall
    /\ FirstTier(gaz, call.rec) = 3
    /\ call.rec.admin1 = Absent
    /\ StructuredCity(gaz, call.rec).pop > 1000000
    /\ call.out.result.loc_confidence = 80

\* what a resolution produced
Produced(out) ==
    IF out.raised THEN <<"raised">>
    ELSE <<out.result.loc_method, out.result.loc_confidence, out.result.lat,
           out.result.lon, out.result.loc_notes>>

\* C7: when the country code resolves, its country is the one tiers 3-6 use
\* and the country name changes nothing; the name is used only when the code
\* is absent or does not resolve; when neither resolves and there is no valid
\* point and no valid bbox, the method is none with confidence 0.0.
C7_CodeBeforeName ==
    (ReturnedCall /\ ~HasPoint(call.rec) /\ ~HasBox(call.rec)) =>
        /\ CodeCountry(gaz, call.rec) # None =>
              /\ Produced(call.out) =
                     Produced(resolve_location([call.rec EXCEPT !.country = Absent], gaz))
              /\ call.out.result.loc_method = "country_centroid" =>
                     /\ call.out.result.lat = Num(CodeCountry(gaz, call.rec).lat)
                     /\ call.out.result.lon = Num(CodeCountry(gaz, call.rec).lon)
        /\ CodeCountry(gaz, call.rec) = None =>
              Produced(call.out) =
                  Produced(resolve_location([call.rec EXCEPT !.country_code = Absent], gaz))
        /\ (CodeCountry(gaz, call.rec) = None /\ NameCountry(gaz, call.rec) = None) =>
              /\ call.out.result.loc_method = "none"
              /\ call.out.result.loc_confidence = 0

C7_Witness ==
    /\ ReturnedCall /\ ~HasPoint(call.rec) /\ ~HasBox(call.rec)
    /\ CodeCountry(gaz, call.rec) # None
    /\ NameCountry(gaz, call.rec) # None
    /\ CodeCountry(gaz, call.rec).iso2 # NameCountry(gaz, call.rec).iso2
    /\ call.out.result.loc_method = "country_centroid"
    /\ call.out.result.lat = Num(CodeCountry(gaz, call.rec).lat)

FindCountryCall == call.op = "find_country"

\* case folding and accent folding, nothing else
Fold(s) == Lower(RemoveCombining(NFKD(s)))

\* the names the name index was loaded with: the rows' names, the aliases merged
LoadedNames ==
    {tables.countries.rows[i].name : i \in DOMAIN tables.countries.rows}
    \cup {a[1] : a \in {b \in Range(Aliases) :
                          /\ b[2] \in DOMAIN gaz.country_by_iso2
                          /\ gaz.country_by_name[Normalize(b[1])]
                               = gaz.country_by_iso2[b[2]]}}

\* the input is a loaded ISO2 or ISO3 code
IsLoadedCode(q) ==
    \/ Len(Strip(Upper(q))) = 2 /\ Strip(Upper(q)) \in DOMAIN gaz.country_by_iso2
    \/ Len(Strip(Upper(q))) = 3 /\ Strip(Upper(q)) \in DOMAIN gaz.country_by_iso3

\* C8 as stated: an input that differs from a loaded country name only in
\* letter case or diacritics returns the entry of that name.
C8_FoldInsensitive ==
    FindCountryCall =>
        \A n \in LoadedNames :
            Fold(call.name_or_code) = Fold(n) =>
                call.out = gaz.country_by_name[Normalize(n)]

\* C8 amended: such an input returns the entry of that name unless the input,
\* trimmed and uppercased, is itself a loaded ISO2 or ISO3 code.
C8_FoldInsensitiveNames ==
    FindCountryCall =>
        \A n \in LoadedNames :
            (Fold(call.name_or_code) = Fold(n) /\ ~IsLoadedCode(call.name_or_code)) =>
                call.out = gaz.country_by_name[Normalize(n)]

C8_Witness ==
    /\ FindCountryCall
    /\ ~IsLoadedCode(call.name_or_code)
    /\ \E n \in LoadedNames :
           /\ n # call.name_or_code
           /\ Fold(call.name_or_code) = Fold(n)
           /\ call.out = gaz.country_by_name[Normalize(n)]
           /\ call.out.name = n

LoadedIso2 ==
    {Upper(tables.countries.rows[i].iso2) : i \in DOMAIN tables.countries.rows}
LoadedIso3 ==
    {Upper(tables.countries.rows[i].iso3) : i \in DOMAIN tables.countries.rows}

\* C9: find_country returns none for an empty input; else the country of the
\* ISO2 code when the trimmed input has length 2 and is a loaded ISO2 code;
\* else the country of the ISO3 code when it has length 3 and is a loaded ISO3
\* code; else what the normalized name index holds, or none.
C9_CodesBeforeNames ==
    FindCountryCall =>
        LET q == call.name_or_code
            code == Strip(Upper(q))
        IN  IF q = <<>> THEN call.out = None
            ELSE IF Len(code) = 2 /\ code \in LoadedIso2
            THEN call.out # None /\ call.out.iso2 = code
            ELSE IF Len(code) = 3 /\ code \in LoadedIso3
            THEN call.out # None /\ call.out.iso3 = code
            ELSE call.out = Get(gaz.country_by_name, Normalize(q))

C9_Witness ==
    /\ FindCountryCall
    /\ Len(Strip(Upper(call.name_or_code))) = 3
    /\ call.out # None
    /\ call.out.iso3 = Strip(Upper(call.name_or_code))
    /\ Normalize(call.name_or_code) \in DOMAIN gaz.country_by_name
    /\ gaz.country_by_name[Normalize(call.name_or_code)].iso3 # call.out.iso3

FindCityCall == call.op = "find_city"

QualifiedKey(c) ==
    Strip(Upper(c.country_code)) \o Colon \o Normalize(c.admin1_name)
        \o Colon \o Normalize(c.city_name)

AgnosticKey(c) == Strip(Upper(c.country_code)) \o Colon \o Normalize(c.city_name)

\* C10: find_city returns none when country or city is empty; with a non-empty
\* admin whose qualified key exists it returns the entry stored under that key,
\* a row of that admin, whatever the admin-agnostic slot holds; otherwise it
\* returns what the admin-agnostic slot holds.
C10_QualifiedKeyFirst ==
    FindCityCall =>
        IF call.country_code = <<>> \/ call.city_name = <<>> THEN call.out = None
        ELSE IF call.admin1_name # <<>> /\ QualifiedKey(call) \in DOMAIN gaz.cities_by_key
        THEN /\ call.out = gaz.cities_by_key[QualifiedKey(call)]
             /\ Normalize(call.out.admin1_name) = Normalize(call.admin1_name)
             /\ Normalize(call.out.name) = Normalize(call.city_name)
        ELSE call.out = Get(gaz.cities_by_key, AgnosticKey(call))

C10_Witness ==
    /\ FindCityCall
    /\ call.admin1_name # <<>>
    /\ QualifiedKey(call) \in DOMAIN gaz.cities_by_key
    /\ AgnosticKey(call) \in DOMAIN gaz.cities_by_key
    /\ gaz.cities_by_key[AgnosticKey(call)].lat # gaz.cities_by_key[QualifiedKey(call)].lat
    /\ call.out = gaz.cities_by_key[QualifiedKey(call)]

----------------------------------------------------------------------------
(* _normalize on its own: a pure function, applied to one text             *)

\* characters a text given to _normalize holds at most
MaxTextLen == 3

TextAlphabet == {"a", "A", "E'", " ", "\t", ".", ",", "-", "_"}

\* the arguments of _normalize: a str, or None
TextInputs ==
    {Str(t) : t \in UNION {[1..k -> TextAlphabet] : k \in 0..MaxTextLen}} \cup {PyNone}

\* _normalize(text) for a str or None: None is falsy, as the empty str is
normalize(v) == IF v.t = "str" THEN Normalize(v.s) ELSE <<>>

InitNorm ==
    /\ pc = "norm"
    /\ tables = [countries |-> NoFile, admin1 |-> NoFile, cities |-> NoFile]
    /\ gaz = EmptyGazetteer
    /\ call = Idle

NormalizeText ==
    /\ pc = "norm"
    /\ \E v \in TextInputs :
           call' = [op |-> "normalize", text |-> v, out |-> normalize(v)]
    /\ pc' = "norm_called"
    /\ UNCHANGED <<tables, gaz>>

NormReturn ==
    /\ pc = "norm_called"
    /\ pc' = "norm"
    /\ call' = Idle
    /\ UNCHANGED <<tables, gaz>>

NextNorm == NormalizeText \/ NormReturn

SpecNorm == InitNorm /\ [][NextNorm]_vars

----------------------------------------------------------------------------
(* resolve_location on signals with damaged fields, over a loaded index    *)

\* a country row whose centroid is off the map
FarNorthRow ==
    [iso2 |-> US2, iso3 |-> US3, name |-> AMERICANAME,
     lat |-> T95, lon |-> T19, population |-> T330]

SignalTables ==
    [countries : {File(<<USRow>>), File(<<FarNorthRow>>)}, admin1 : {File(<<GtoRow>>)},
     cities : {File(<<LeonGtoRow, LeonNleRow>>), File(<<LeonNleRow>>)}]

WideSignals ==
    [lat : {Absent, Num(40), Num(100), Str(NOTANUMBER)},
     lon : {Absent, Num(-9), Num(200)},
     bbox : {Absent, List(<<Num(-10), Num(40), Num(-8), Num(42)>>),
             List(<<Num(0), Num(0)>>),
             List(<<Num(0), Str(NOTANUMBER), Num(0), Num(0)>>),
             List(<<Num(0), Num(100), Num(0), Num(100)>>)},
     country_code : {Absent}, country : {Absent, Str(USALOW), PyNone},
     admin1 : {Absent, Str(GTOLOW)}, city : {Absent, Str(LEONLOW)},
     place_name : {Absent, Str(PLACE)}]

InitSignal ==
    /\ pc = "load_countries"
    /\ tables \in SignalTables
    /\ gaz = EmptyGazetteer
    /\ call = Idle

ResolveWide == ResolveFrom(WideSignals)

\* the record a caller passes on: the keys of the signal, as the output holds
\* them (resolve_location resets the three loc_ keys of its copy)
AsRecord(result) ==
    [lat |-> result.lat, lon |-> result.lon, bbox |-> result.bbox,
     country_code |-> result.country_code, country |-> result.country,
     admin1 |-> result.admin1, city |-> result.city, place_name |-> result.place_name]

\* enrich_events over the output of an earlier enrich_events: the record that
\* was returned is resolved again
ResolveAgain ==
    /\ pc = "called"
    /\ call.op = "resolve_location" /\ ~call.out.raised
    /\ call' = [op |-> "resolve_again", first |-> call.out.result,
                rec |-> AsRecord(call.out.result),
                out |-> resolve_location(AsRecord(call.out.result), gaz),
                rec_after |-> RecAfter(AsRecord(call.out.result), gaz)]
    /\ UNCHANGED <<pc, tables, gaz>>

NextSignal ==
    \/ LoadCountries
    \/ LoadAdmin1
    \/ LoadCities
    \/ BuildAliases
    \/ ResolveWide
    \/ ResolveAgain
    \/ Return

SpecSignal == InitSignal /\ [][NextSignal]_vars

----------------------------------------------------------------------------
(* The loaders: what the tables hold once construction went through        *)

\* _load_cities went through every row of the city file
CitiesLoaded == pc \in {"build_aliases", "ready", "called"}

CityRows == tables.cities.rows

\* the (country, normalized city) pair of a row, as the admin-agnostic key
PairOf(row) == Upper(row["country_iso2"]) \o Colon \o Normalize(row["city"])

\* int(row.get('pop', 0))
RowPop(row) == IF "pop" \in DOMAIN row THEN ParseNumber(row["pop"]).n ELSE 0

SetMax(S) == CHOOSE m \in S : \A n \in S : n <= m

\* C11: after the city table is loaded, the admin-agnostic slot of every
\* (country, normalized city) pair holds a row of that pair whose population is
\* the maximum over the loaded rows of the pair, in whatever order they came.
C11_AgnosticSlotHoldsMax ==
    CitiesLoaded =>
        \A i \in DOMAIN CityRows :
            LET k == PairOf(CityRows[i])
                same == {j \in DOMAIN CityRows : PairOf(CityRows[j]) = k}
            IN  /\ k \in DOMAIN gaz.cities_by_key
                /\ gaz.cities_by_key[k].pop = SetMax({RowPop(CityRows[j]) : j \in same})
                /\ \E j \in same : gaz.cities_by_key[k].name = CityRows[j]["city"]

\* the larger of two rows of one pair came first and is the one kept
C11_Witness ==
    /\ pc = "ready"
    /\ CityRows = <<LeonGtoRow, LeonNleRow>>
    /\ PairOf(LeonGtoRow) = PairOf(LeonNleRow)
    /\ gaz.cities_by_key[PairOf(LeonNleRow)].pop = 1500000
    /\ gaz.cities_by_key[PairOf(LeonNleRow)].name = LEONACC

\* every row of the three files has the columns its loader indexes
HasReadColumns ==
    /\ \A i \in DOMAIN tables.countries.rows :
           {"iso2", "iso3", "name", "lat", "lon"} \subseteq DOMAIN tables.countries.rows[i]
    /\ \A i \in DOMAIN tables.admin1.rows :
           {"country_iso2", "admin1_name", "lat", "lon"} \subseteq DOMAIN tables.admin1.rows[i]
    /\ \A i \in DOMAIN tables.cities.rows :
           {"country_iso2", "admin1_name", "city", "lat", "lon"}
               \subseteq DOMAIN tables.cities.rows[i]

\* C12 as stated: a row with an unparsable lat, lon or population is skipped and
\* only that row, so the construction of the Gazetteer always completes.
C12_MalformedRowSkipped == HasReadColumns => pc # "crashed"

\* every numeric field of every row parses
FieldsParse(rows, columns) ==
    \A i \in DOMAIN rows :
        \A c \in columns \cap DOMAIN rows[i] : ParseNumber(rows[i][c]).ok

NumbersParse ==
    /\ FieldsParse(tables.countries.rows, {"lat", "lon", "population"})
    /\ FieldsParse(tables.admin1.rows, {"lat", "lon"})
    /\ FieldsParse(tables.cities.rows, {"lat", "lon", "pop"})

Constructed == pc \in {"ready", "called"}

FindAdmin1Call == call.op = "find_admin1"

\* C13: a missing table never aborts the construction; it leaves its index
\* empty, so lookups on it miss, while the indexes of the files that exist hold
\* their rows. With the city table missing nothing resolves as city_geocode,
\* with the admin table missing nothing as admin1_centroid, with the country
\* table missing everything as provided_point, bbox_centroid or none.
C13_MissingTableDegrades ==
    /\ (HasReadColumns /\ NumbersParse) => pc # "crashed"
    /\ Constructed =>
        /\ ~tables.countries.exists =>
               /\ gaz.country_by_iso2 = <<>> /\ gaz.country_by_iso3 = <<>>
               /\ gaz.country_by_name = <<>>
               /\ call.op = "find_country" => call.out = None
               /\ ReturnedCall => call.out.result.loc_method
                                    \in {"provided_point", "bbox_centroid", "none"}
        /\ ~tables.admin1.exists =>
               /\ gaz.admin1_by_key = <<>>
               /\ FindAdmin1Call => call.out = None
               /\ ReturnedCall => call.out.result.loc_method # "admin1_centroid"
        /\ ~tables.cities.exists =>
               /\ gaz.cities_by_key = <<>>
               /\ FindCityCall => call.out = None
               /\ ReturnedCall => call.out.result.loc_method # "city_geocode"
        /\ \A i \in DOMAIN tables.countries.rows :
               Upper(tables.countries.rows[i]["iso2"]) \in DOMAIN gaz.country_by_iso2
        /\ \A i \in DOMAIN tables.admin1.rows :
               Upper(tables.admin1.rows[i]["country_iso2"]) \o Colon
                   \o Normalize(tables.admin1.rows[i]["admin1_name"])
                   \in DOMAIN gaz.admin1_by_key
        /\ \A i \in DOMAIN CityRows : PairOf(CityRows[i]) \in DOMAIN gaz.cities_by_key

\* without the city file a signal naming a city of a loaded country falls to
\* the country centroid
C13_Witness ==
    /\ pc = "called" /\ ReturnedCall
    /\ ~tables.cities.exists /\ ~tables.admin1.exists
    /\ tables.countries = File(<<USRow>>)
    /\ call.rec.city = Str(LEONLOW) /\ call.rec.country = Str(USALOW)
    /\ call.rec.lat = Absent /\ call.rec.bbox = Absent
    /\ call.out.result.loc_method = "country_centroid"
    /\ call.out.result.lat = Num(39)

CountryRows == tables.countries.rows

\* the normalized canonical names of the country table
RowNameKeys == {Normalize(CountryRows[i]["name"]) : i \in DOMAIN CountryRows}

\* the last row of the country table bearing the name of key k
LastRowNamed(k) ==
    CountryRows[SetMax({i \in DOMAIN CountryRows : Normalize(CountryRows[i]["name"]) = k})]

\* the keys the aliases are merged under
AliasKeys == [n \in DOMAIN Aliases |-> Normalize(Aliases[n][1])]

\* C14: after construction every normalized canonical name of the country
\* table maps to the entry of the last-loaded row bearing it, and an alias key
\* is in the name index only if it was free and its target ISO2 was loaded, in
\* which case it maps to the entry of that ISO2.
C14_AliasesKeepNames ==
    pc = "ready" =>
        /\ \A k \in RowNameKeys :
               /\ k \in DOMAIN gaz.country_by_name
               /\ gaz.country_by_name[k].iso2 = Upper(LastRowNamed(k)["iso2"])
               /\ gaz.country_by_name[k].name = LastRowNamed(k)["name"]
        /\ \A n \in DOMAIN Aliases :
               LET k == AliasKeys[n]
                   iso2 == Aliases[n][2]
               IN  k \notin RowNameKeys =>
                       IF iso2 \in LoadedIso2
                       THEN /\ k \in DOMAIN gaz.country_by_name
                            /\ gaz.country_by_name[k] = gaz.country_by_iso2[iso2]
                       ELSE k \notin DOMAIN gaz.country_by_name
        /\ DOMAIN gaz.country_by_name \subseteq RowNameKeys \cup Range(AliasKeys)

\* the alias america points at US, and the table names another country America:
\* the table's name stays, the free alias usa is added
C14_Witness ==
    /\ pc = "ready"
    /\ CountryRows = <<USRow, XARow>>
    /\ gaz.country_by_name[Normalize(AMERICA)].iso2 = XA2
    /\ gaz.country_by_name[USALOW].iso2 = US2

Admin1Rows == tables.admin1.rows

\* the files use the column names admin_name and population
UsesDocumentedColumns ==
    /\ \A i \in DOMAIN Admin1Rows :
           DOMAIN Admin1Rows[i] = {"country_iso2", "admin_name", "lat", "lon"}
    /\ \A i \in DOMAIN CityRows :
           /\ {"country_iso2", "city", "lat", "lon"} \subseteq DOMAIN CityRows[i]
           /\ DOMAIN CityRows[i] \subseteq
                  {"country_iso2", "admin_name", "city", "lat", "lon", "population"}
    /\ Admin1Rows # <<>> \/ CityRows # <<>>

Admin1KeyOf(row) == Upper(row["country_iso2"]) \o Colon \o Normalize(row["admin1_name"])

CityKeyOf(row) ==
    Upper(row["country_iso2"]) \o Colon \o Normalize(row["admin1_name"])
        \o Colon \o Normalize(row["city"])

\* the last row of the admin / city file under the key of row
LastAdmin1Row(row) ==
    Admin1Rows[SetMax({i \in DOMAIN Admin1Rows : Admin1KeyOf(Admin1Rows[i]) = Admin1KeyOf(row)})]
LastCityRow(row) ==
    CityRows[SetMax({i \in DOMAIN CityRows : CityKeyOf(CityRows[i]) = CityKeyOf(row)})]

----------------------------------------------------------------------------
(* The index once constructed                                              *)

----------------------------------------------------------------------------
(* The key _normalize returns                                              *)

NormalizeCall == call.op = "normalize"

\* values of string.punctuation that the texts of the model hold
IsPunctuation(c) == c \in {".", ",", "-", "_", ":"}

\* C16 as stated: the key never begins or ends with whitespace, never holds two
\* consecutive whitespace characters, holds no uppercase letter and no
\* punctuation other than hyphen and comma; empty or null input gives the
\* empty key.
C16_KeyTrimmedAndCollapsed ==
    NormalizeCall =>
        LET key == call.out
        IN  /\ key # <<>> => ~IsSpace(key[1]) /\ ~IsSpace(key[Len(key)])
            /\ \A i \in 1..(Len(key) - 1) : ~(IsSpace(key[i]) /\ IsSpace(key[i + 1]))
            /\ \A i \in DOMAIN key : key[i] \notin UpperSet \cup {"E'", "O'"}
            /\ \A i \in DOMAIN key : IsPunctuation(key[i]) => key[i] \in {"-", ","}
            /\ call.text \in {PyNone, Str(<<>>)} => key = <<>>

----------------------------------------------------------------------------
(* Signals with damaged fields                                             *)

\* a lat / lon that is there and does not parse, or is out of range
LatInvalid(rec) ==
    /\ rec.lat.t \notin {"absent", "none"}
    /\ ~ToFloat(rec.lat).ok \/ ~ValidLat(ToFloat(rec.lat).n)
LonInvalid(rec) ==
    /\ rec.lon.t \notin {"absent", "none"}
    /\ ~ToFloat(rec.lon).ok \/ ~ValidLon(ToFloat(rec.lon).n)

\* a bbox list of another arity, with a non-numeric value, or whose centroid
\* is out of range
BboxInvalid(rec) == rec.bbox.t = "list" /\ rec.bbox.l # <<>> /\ ~HasBox(rec)

Without(rec, field) == [rec EXCEPT ![field] = Absent]

\* what a call gave: the method and the confidence, or that it raised
Outcome(out) ==
    IF out.raised THEN <<"raised">>
    ELSE <<out.result.loc_method, out.result.loc_confidence>>

\* C17: a signal whose lat or lon is out of range or unparsable, or whose bbox
\* list has the wrong arity, a non-numeric value or an out-of-range centroid,
\* resolves to the method and the confidence of the same signal without that
\* field.
C17_InvalidFieldAsAbsent ==
    ResolveCall =>
        /\ LatInvalid(call.rec) =>
               Outcome(call.out) = Outcome(resolve_location(Without(call.rec, "lat"), gaz))
        /\ LonInvalid(call.rec) =>
               Outcome(call.out) = Outcome(resolve_location(Without(call.rec, "lon"), gaz))
        /\ BboxInvalid(call.rec) =>
               Outcome(call.out) = Outcome(resolve_location(Without(call.rec, "bbox"), gaz))

\* an out-of-range lat and a bbox with a non-numeric value: the signal goes to
\* its country, as it does without them
C17_Witness ==
    /\ ReturnedCall
    /\ call.rec.lat = Num(100) /\ call.rec.lon = Num(-9)
    /\ call.rec.bbox = List(<<Num(0), Str(NOTANUMBER), Num(0), Num(0)>>)
    /\ call.rec.country = Str(USALOW) /\ call.rec.city = Absent
    /\ call.rec.admin1 = Absent /\ call.rec.place_name = Absent
    /\ call.out.result.loc_method = "country_centroid"

----------------------------------------------------------------------------
(* Confidence along the tier order                                         *)

\* the tier that produced a record, read off its method and its notes
TierOf(result) ==
    CASE result.loc_method = "provided_point"   -> 1
      [] result.loc_method = "bbox_centroid"    -> 2
      [] result.loc_method = "city_geocode"
         /\ Head(result.loc_notes) = "Parsed from place name: " -> 4
      [] result.loc_method = "city_geocode"     -> 3
      [] result.loc_method = "admin1_centroid"  -> 5
      [] result.loc_method = "country_centroid" -> 6
      [] OTHER                                  -> 7

\* well-formed signals, one or more for every tier, to set a resolution against
TierExamples ==
    {rec \in WideSignals :
        /\ rec.lat \in {Absent, Num(40)} /\ rec.lon = Num(-9)
        /\ rec.bbox \in {Absent, List(<<Num(-10), Num(40), Num(-8), Num(42)>>)}
        /\ rec.country \in {Absent, Str(USALOW)}}

\* C19 as stated: of two resolutions, the one produced by the earlier tier has
\* a confidence greater than or equal to that of the later tier.
C19_ConfidenceDecreases ==
    ReturnedCall =>
        \A rec \in TierExamples :
            LET other == resolve_location(rec, gaz).result
            IN  TierOf(call.out.result) < TierOf(other)
                    => call.out.result.loc_confidence >= other.loc_confidence

\* C19: exact point gives 1.0, country centroid 0.6, unresolved 0.0, and of two
\* resolutions the one of the earlier tier has the greater or equal confidence,
\* unless the earlier is bbox_centroid (0.8) and the later a structured city
\* with both bonuses (0.85).
C19_ConfidenceDecreasesButCity ==
    ReturnedCall =>
        /\ TierOf(call.out.result) = 1 => call.out.result.loc_confidence = 100
        /\ TierOf(call.out.result) = 6 => call.out.result.loc_confidence = 60
        /\ TierOf(call.out.result) = 7 => call.out.result.loc_confidence = 0
        /\ \A rec \in TierExamples :
               LET other == resolve_location(rec, gaz).result
               IN  TierOf(call.out.result) < TierOf(other)
                       => \/ call.out.result.loc_confidence >= other.loc_confidence
                          \/ /\ TierOf(call.out.result) = 2 /\ TierOf(other) = 3
                             /\ call.out.result.loc_confidence = 80
                             /\ other.loc_confidence = 85

\* a bbox centroid at 0.8, next to a city with admin and population bonus at 0.85
C19_Witness ==
    /\ ReturnedCall
    /\ call.out.result.loc_method = "bbox_centroid"
    /\ call.out.result.loc_confidence = 80
    /\ \E rec \in TierExamples :
           /\ resolve_location(rec, gaz).result.loc_method = "city_geocode"
           /\ resolve_location(rec, gaz).result.loc_confidence = 85

----------------------------------------------------------------------------
(* What resolve_location leaves alone                                      *)

\* the fields of a signal other than its coordinates
OtherFields == {"bbox", "country_code", "country", "admin1", "city", "place_name"}

----------------------------------------------------------------------------
(* Resolving an output again                                               *)

ResolvedAgain == call.op = "resolve_again"

\* the first resolution located the signal, at coordinates in the valid ranges
LocatedInRange(result) ==
    /\ result.loc_method # "none"
    /\ result.lat.t = "num" /\ result.lon.t = "num"
    /\ ValidLat(result.lat.n) /\ ValidLon(result.lon.n)

\* C21: resolving again the output of a resolution whose method is not none
\* and whose coordinates are in the valid ranges returns the same lat and lon
\* with method provided_point and confidence 1.0, whatever the method and the
\* confidence of the first resolution.
C21_ResolvedAgainIsPoint ==
    (ResolvedAgain /\ LocatedInRange(call.first)) =>
        /\ ~call.out.raised
        /\ call.out.result.lat = call.first.lat
        /\ call.out.result.lon = call.first.lon
        /\ call.out.result.loc_method = "provided_point"
        /\ call.out.result.loc_confidence = 100

\* a city found at 0.85 comes back as a provided point at 1.0, where it was
C21_Witness ==
    /\ ResolvedAgain
    /\ call.first.loc_method = "city_geocode" /\ call.first.loc_confidence = 85
    /\ call.first.lat = Num(21)
    /\ call.out.result.loc_method = "provided_point"
    /\ call.out.result.loc_confidence = 100
    /\ call.out.result.lat = Num(21)

====
